---------------------------- MODULE Spec2Model ----------------------------
(***************************************************************************)
(* cf-ddns.py: one invocation of the CloudFlare dynamic DNS updater as a   *)
(* state machine.  Strings the program inspects character by character     *)
(* (addresses, record contents, HTTP bodies) are sequences of one-         *)
(* character strings; DNS names are sequences of labels.                   *)
(***************************************************************************)
EXTENDS Integers, Sequences, FiniteSets, TLC

(***************************************************************************)
(* Bounds of the model.                                                    *)
(***************************************************************************)
\* Largest number of records the provider's zone holds before the first run.
MaxRecs == 2

(***************************************************************************)
(* Text helpers.                                                           *)
(***************************************************************************)
Digits == {"0", "1", "2", "3", "4", "5", "6", "7", "8", "9"}

HexDigits == Digits \cup {"a", "b", "c", "d", "e", "f", "A", "B", "C", "D", "E", "F"}

DigitVal(c) ==
    CASE c = "0" -> 0 [] c = "1" -> 1 [] c = "2" -> 2 [] c = "3" -> 3
      [] c = "4" -> 4 [] c = "5" -> 5 [] c = "6" -> 6 [] c = "7" -> 7
      [] c = "8" -> 8 [] c = "9" -> 9

Whitespace == {" ", "\n", "\t", "\r"}

RECURSIVE LStrip(_)
LStrip(s) ==
    IF s # <<>> /\ Head(s) \in Whitespace THEN LStrip(Tail(s)) ELSE s

RECURSIVE RStrip(_)
RStrip(s) ==
    IF s # <<>> /\ s[Len(s)] \in Whitespace
    THEN RStrip(SubSeq(s, 1, Len(s) - 1))
    ELSE s

\* str.strip() of the body an IP service answered with.
Strip(s) == RStrip(LStrip(s))

(***************************************************************************)
(* socket.inet_pton(AF_INET, s): the C library's dotted-quad parser.  It   *)
(* reads s from position i; tp is the octet being built, saw_digit whether *)
(* that octet has a digit yet, octets how many octets were started.        *)
(***************************************************************************)
RECURSIVE Pton4(_, _, _, _, _)
Pton4(s, i, tp, saw_digit, octets) ==
    IF i > Len(s) THEN octets = 4
    ELSE IF s[i] \in Digits THEN
        LET new == tp * 10 + DigitVal(s[i]) IN
        IF saw_digit /\ tp = 0 THEN FALSE
        ELSE IF new > 255 THEN FALSE
        ELSE IF ~saw_digit /\ octets + 1 > 4 THEN FALSE
        ELSE Pton4(s, i + 1, new, TRUE, IF saw_digit THEN octets ELSE octets + 1)
    ELSE IF s[i] = "." /\ saw_digit THEN
        IF octets = 4 THEN FALSE ELSE Pton4(s, i + 1, 0, FALSE, octets)
    ELSE FALSE

inet_pton4(s) == Pton4(s, 1, 0, FALSE, 0)

(***************************************************************************)
(* socket.inet_pton(AF_INET6, s): the C library's colon-hex parser.  tp is *)
(* the number of bytes written (of 16), colonp whether "::" was seen,      *)
(* seen the hex digits of the group being read, curtok where that group    *)
(* starts (an embedded dotted quad is parsed from there).                  *)
(***************************************************************************)
RECURSIVE Pton6(_, _, _, _, _, _)
Pton6(s, i, tp, colonp, seen, curtok) ==
    IF i > Len(s) THEN
        LET tp2 == IF seen > 0 THEN tp + 2 ELSE tp IN
        /\ tp2 <= 16
        /\ IF colonp THEN tp2 # 16 ELSE tp2 = 16
    ELSE IF s[i] \in HexDigits THEN
        IF seen + 1 > 4 THEN FALSE
        ELSE Pton6(s, i + 1, tp, colonp, seen + 1, curtok)
    ELSE IF s[i] = ":" THEN
        IF seen = 0 THEN
            IF colonp THEN FALSE ELSE Pton6(s, i + 1, tp, TRUE, 0, i + 1)
        ELSE IF i = Len(s) THEN FALSE
        ELSE IF tp + 2 > 16 THEN FALSE
        ELSE Pton6(s, i + 1, tp + 2, colonp, 0, i + 1)
    ELSE IF s[i] = "." /\ tp + 4 <= 16 /\ inet_pton4(SubSeq(s, curtok, Len(s))) THEN
        LET tp2 == tp + 4 IN
        IF colonp THEN tp2 # 16 ELSE tp2 = 16
    ELSE FALSE

inet_pton6(s) ==
    IF s # <<>> /\ s[1] = ":"
    THEN IF Len(s) >= 2 /\ s[2] = ":" THEN Pton6(s, 2, 0, FALSE, 0, 2) ELSE FALSE
    ELSE Pton6(s, 1, 0, FALSE, 0, 1)

\* is_ipv4 / is_ipv6: the packed address (always truthy) or False.
is_ipv4(ip_address) == inet_pton4(ip_address)

is_ipv6(ip_address) == inet_pton6(ip_address)

(***************************************************************************)
(* Values the inputs are drawn from.                                       *)
(***************************************************************************)
\* --domain
Domain == <<"example", "com">>

\* --subdomain: absent, or a host label.
SubdomainArgs == {<<>>, <<"home">>}

IP4a == <<"1", "0", ".", "0", ".", "0", ".", "5">>
IP4b == <<"1", "0", ".", "0", ".", "0", ".", "9">>
IP6a == <<":", ":", "1">>
HostName == <<"c", "f", ".", "x">>
ErrBody == <<"B", "a", "d">>

\* --content: absent, or one address.
ContentArgs == {<<>>, IP4b, IP6a}

valid_record_types == {"A", "AAAA", "CNAME", "LOC", "MX", "NS", "SPF", "SRV", "TXT"}

\* --type: absent (the default ""), or one of three of the valid record types.
TypeArgs == {""} \cup (valid_record_types \cap {"A", "AAAA", "TXT"})

\* --cf-mode: absent, or a value given on the command line.
CfModeArgs == {"", "1"}

\* The default --ip-service list holds two URLs.
NumServices == 2

\* What one GET of an IP service can end in: a transport failure (an
\* exception), or a response with a status and a body.  requests.get does not
\* raise on a non-2xx status.
Responses ==
    {[kind |-> "error", status |-> 0, text |-> <<>>]}
    \cup {[kind |-> "http", status |-> 200, text |-> b] :
            b \in {IP4a \o <<"\n">>, IP4b, IP6a, <<"\n">>}}
    \cup {[kind |-> "http", status |-> 502, text |-> ErrBody]}

Unasked == [kind |-> "unasked", status |-> 0, text |-> <<>>]

(***************************************************************************)
(* The fully-qualified target name (the --update branch of __main__).      *)
(***************************************************************************)
\* args.subdomain.endswith('.' + args.domain), on labels.
EndsWithDomain(sub, domain) ==
    /\ Len(sub) > Len(domain)
    /\ SubSeq(sub, Len(sub) - Len(domain) + 1, Len(sub)) = domain

Fqdn(sub, domain) ==
    IF sub # <<>>
    THEN IF EndsWithDomain(sub, domain) THEN sub
         ELSE IF sub = domain THEN sub
         ELSE sub \o domain
    ELSE domain

(***************************************************************************)
(* The provider's zone: a list of records, as rec_load_all returns them.   *)
(***************************************************************************)
RecordPool ==
    { [name |-> <<"home">> \o Domain, type |-> "A",     content |-> IP4a,     service_mode |-> "0"],
      [name |-> <<"home">> \o Domain, type |-> "A",     content |-> IP4b,     service_mode |-> "1"],
      [name |-> <<"home">> \o Domain, type |-> "AAAA",  content |-> IP6a,     service_mode |-> "0"],
      [name |-> <<"home">> \o Domain, type |-> "CNAME", content |-> HostName, service_mode |-> "0"],
      [name |-> Domain,               type |-> "A",     content |-> IP4a,     service_mode |-> "0"] }

WithId(r, id) ==
    [rec_id |-> id, name |-> r.name, type |-> r.type, content |-> r.content,
     service_mode |-> r.service_mode]

InitZones ==
    UNION { { [i \in 1..n |-> WithId(f[i], i)] : f \in [1..n -> RecordPool] } :
            n \in 0..MaxRecs }

\* rec_new at the provider: one more record, with a fresh identifier.
ProviderNew(z, type, content, name, mode) ==
    Append(z, [rec_id |-> Len(z) + 1, name |-> name, type |-> type,
               content |-> content, service_mode |-> mode])

\* rec_edit at the provider: the record with that identifier takes the type,
\* content and mode; it takes the name when one is given (None: <<>>).
ProviderEdit(z, type, id, name, content, mode) ==
    [i \in 1..Len(z) |->
        IF z[i].rec_id = id
        THEN [rec_id |-> id, name |-> IF name = <<>> THEN z[i].name ELSE name,
              type |-> type, content |-> content, service_mode |-> mode]
        ELSE z[i]]

(***************************************************************************)
(* modify_record, lines 83-108: the check of the address against --type    *)
(* and the record type used.  "exit" is exit(1) after the printed message, *)
(* "ValueError" the raised exception, anything else the record type.       *)
(***************************************************************************)
\* CheckType without the "is not a valid IPv6 address" test of lines 97-99.
CheckTypeNoV6Test(rec_type, dest_addr) ==
    IF rec_type = "A" /\ is_ipv6(dest_addr) THEN "exit"
    ELSE IF rec_type = "A" /\ ~is_ipv4(dest_addr) THEN "exit"
    ELSE IF rec_type = "AAAA" /\ is_ipv4(dest_addr) THEN "exit"
    ELSE IF rec_type # "" THEN rec_type
    ELSE IF is_ipv4(dest_addr) THEN "A"
    ELSE IF is_ipv6(dest_addr) THEN "AAAA"
    ELSE "ValueError"

CheckType(rec_type, dest_addr) ==
    IF rec_type = "A" /\ is_ipv6(dest_addr) THEN "exit"
    ELSE IF rec_type = "A" /\ ~is_ipv4(dest_addr) THEN "exit"
    ELSE IF rec_type = "AAAA" /\ is_ipv4(dest_addr) THEN "exit"
    ELSE IF rec_type = "AAAA" /\ ~is_ipv6(dest_addr) THEN "exit"
    ELSE IF rec_type # "" THEN rec_type
    ELSE IF is_ipv4(dest_addr) THEN "A"
    ELSE IF is_ipv6(dest_addr) THEN "AAAA"
    ELSE "ValueError"

(***************************************************************************)
(* modify_record, lines 117-131: the scan of the fetched records from      *)
(* position i.  rec_exists is a local of the function: the scan assigns it *)
(* once per record, so over no records it keeps what it held ("unbound"    *)
(* before the first assignment).  rec_id 0 is None.                        *)
(***************************************************************************)
RECURSIVE ScanFrom(_, _, _, _, _, _)
ScanFrom(recs, i, subdom, dest_addr, rt, exists) ==
    IF i > Len(recs) THEN [rec_exists |-> exists, rec_id |-> 0]
    ELSE IF recs[i].name = subdom /\ recs[i].content = dest_addr
         THEN [rec_exists |-> "True", rec_id |-> 0]
    ELSE IF recs[i].name = subdom /\ recs[i].type = rt
         THEN [rec_exists |-> "False", rec_id |-> recs[i].rec_id]
    ELSE ScanFrom(recs, i + 1, subdom, dest_addr, rt, "False")

\* The scan with the type test ahead of the content test.
RECURSIVE ScanFromTypeFirst(_, _, _, _, _, _)
ScanFromTypeFirst(recs, i, subdom, dest_addr, rt, exists) ==
    IF i > Len(recs) THEN [rec_exists |-> exists, rec_id |-> 0]
    ELSE IF recs[i].name = subdom /\ recs[i].type = rt
         THEN [rec_exists |-> "False", rec_id |-> recs[i].rec_id]
    ELSE IF recs[i].name = subdom /\ recs[i].content = dest_addr
         THEN [rec_exists |-> "True", rec_id |-> 0]
    ELSE ScanFromTypeFirst(recs, i + 1, subdom, dest_addr, rt, "False")

ScanRecordsTypeFirst(recs, subdom, dest_addr, rt, exists) ==
    ScanFromTypeFirst(recs, 1, subdom, dest_addr, rt, exists)

\* The scan comparing each record's type with "" (the default of --type)
\* in place of the record type in use.
ScanRecordsDefaultType(recs, subdom, dest_addr, rt, exists) ==
    ScanFrom(recs, 1, subdom, dest_addr, "", exists)

ScanRecords(recs, subdom, dest_addr, rt, exists) ==
    ScanFrom(recs, 1, subdom, dest_addr, rt, exists)

\* The orders a for loop may visit a set in.
Orders(S) ==
    { f \in [1..Cardinality(S) -> S] : \A i, j \in 1..Cardinality(S) : f[i] = f[j] => i = j }

\* A str iterated by a for loop: its characters, each a str of length one.
Chars(s) == [i \in 1..Len(s) |-> <<s[i]>>]

(***************************************************************************)
(* State.                                                                  *)
(***************************************************************************)
VARIABLES
    args,           \* the command line: action, subdomain, dest_addr, rec_type, cf_mode
    zone,           \* the provider's records of the domain
    service_reply,  \* what each IP service answers, fixed once it was asked
    run,            \* "first" or "second" invocation of the script
    first,          \* what the first invocation did, kept for the second
    pc,             \* where the invocation is; see Terminated for its ends
    subdomain,      \* the fully-qualified target name
    svc_i,          \* get_external_ip: services asked so far
    ips,            \* get_external_ip: the set it builds
    dest_addrs,     \* modify_record: the addresses in the order the loop visits them
    todo,           \* modify_record: the addresses not visited yet
    dest_addr,      \* modify_record: the address of this iteration (<<>>: none yet)
    rtype,          \* modify_record: the record type of this iteration
    records,        \* modify_record: the records fetched in this iteration
    fetched,        \* whether records was fetched in this iteration
    rec_exists,     \* modify_record: "unbound", "True" or "False"
    rec_id,         \* modify_record: the identifier found (0: None)
    calls,          \* the provider calls of this invocation, in order
    iter_calls,     \* the rec_new and rec_edit calls of this iteration
    errlog,         \* messages logged at error level
    api_failed      \* whether a provider call raised APIError

vars == <<args, zone, service_reply, run, first, pc, subdomain, svc_i, ips,
          dest_addrs, todo, dest_addr, rtype, records, fetched, rec_exists,
          rec_id, calls, iter_calls, errlog, api_failed>>

env == <<args, service_reply, run, first>>
loopvars == <<dest_addr, rtype, records, fetched, rec_exists, rec_id, iter_calls>>

\* --cf-mode defaults to "0"; a value on the command line never passes
\* choices=(0, 1), whose members are integers.
cf_mode == "0"

NoFirst == [done |-> FALSE, dest_addrs |-> <<>>, mutations |-> 0]

Fresh ==
    /\ pc = "parse"
    /\ subdomain = <<>>
    /\ svc_i = 0
    /\ ips = {}
    /\ dest_addrs = <<>>
    /\ todo = <<>>
    /\ dest_addr = <<>>
    /\ rtype = ""
    /\ records = <<>>
    /\ fetched = FALSE
    /\ rec_exists = "unbound"
    /\ rec_id = 0
    /\ calls = <<>>
    /\ iter_calls = <<>>
    /\ errlog = {}
    /\ api_failed = FALSE

Init ==
    /\ args \in [action : {"list", "update"}, subdomain : SubdomainArgs,
                 dest_addr : ContentArgs, rec_type : TypeArgs, cf_mode : CfModeArgs]
    /\ zone \in InitZones
    /\ service_reply = [i \in 1..NumServices |-> Unasked]
    /\ run = "first"
    /\ first = NoFirst
    /\ Fresh

\* The ends of an invocation: "done" (the script ran to its end), "caught"
\* (the APIError handler logged the error and the script ran to its end),
\* "exit" (exit(1) after a printed message), "usage" (argparse's error),
\* "crash" (an exception nothing handles).
Terminated == pc \in {"done", "caught", "exit", "usage", "crash"}

ExitCode ==
    CASE pc \in {"done", "caught"} -> 0
      [] pc \in {"exit", "crash"} -> 1
      [] pc = "usage" -> 2
      [] OTHER -> -1

(***************************************************************************)
(* __main__.                                                               *)
(***************************************************************************)
\* parse_args and the choice of the action.  The credentials are taken as
\* present.
ParseArgs ==
    /\ pc = "parse"
    /\ IF args.cf_mode # ""
       THEN pc' = "usage" /\ UNCHANGED subdomain
       ELSE IF args.action = "list"
       THEN pc' = "list" /\ UNCHANGED subdomain
       ELSE pc' = "resolve" /\ subdomain' = Fqdn(args.subdomain, Domain)
    /\ UNCHANGED <<env, zone, svc_i, ips, dest_addrs, todo, loopvars, calls,
                   errlog, api_failed>>

\* --list: pretty_print_records(get_all_records(...)), outside any try.
ListRecords ==
    /\ pc = "list"
    /\ calls' = Append(calls, [op |-> "rec_load_all"])
    /\ \E ok \in BOOLEAN :
        IF ok
        THEN pc' = "done" /\ UNCHANGED api_failed
        ELSE pc' = "crash" /\ api_failed' = TRUE
    /\ UNCHANGED <<env, zone, subdomain, svc_i, ips, dest_addrs, todo, loopvars, errlog>>

\* --update with --content: dest_addrs is the str given.
UseContent ==
    /\ pc = "resolve"
    /\ args.dest_addr # <<>>
    /\ dest_addrs' = Chars(args.dest_addr)
    /\ todo' = Chars(args.dest_addr)
    /\ pc' = "loop"
    /\ UNCHANGED <<env, zone, subdomain, svc_i, ips, loopvars, calls, errlog, api_failed>>

\* get_external_ip: one turn of its loop.
QueryService ==
    /\ pc = "resolve"
    /\ args.dest_addr = <<>>
    /\ svc_i < NumServices
    /\ \E r \in IF service_reply[svc_i + 1] = Unasked
                THEN Responses ELSE {service_reply[svc_i + 1]} :
        /\ service_reply' = [service_reply EXCEPT ![svc_i + 1] = r]
        /\ ips' = IF r.kind = "http" /\ Strip(r.text) # <<>>
                  THEN ips \cup {Strip(r.text)} ELSE ips
    /\ svc_i' = svc_i + 1
    /\ UNCHANGED <<args, run, first, zone, pc, subdomain, dest_addrs, todo, loopvars,
                   calls, errlog, api_failed>>

\* get_external_ip returned: the error is logged over an empty set, and
\* modify_record is called either way.
Discovered ==
    /\ pc = "resolve"
    /\ args.dest_addr = <<>>
    /\ svc_i = NumServices
    /\ errlog' = IF ips = {} THEN errlog \cup {"no external IP address"} ELSE errlog
    /\ \E order \in Orders(ips) :
        /\ dest_addrs' = order
        /\ todo' = order
    /\ pc' = "loop"
    /\ UNCHANGED <<env, zone, subdomain, svc_i, ips, loopvars, calls, api_failed>>

(***************************************************************************)
(* modify_record.                                                          *)
(***************************************************************************)
\* for dest_addr in dest_addrs; the function returns over no more addresses.
NextAddr ==
    /\ pc = "loop"
    /\ IF todo = <<>>
       THEN /\ pc' = "done"
            /\ UNCHANGED <<todo, dest_addr, fetched, iter_calls>>
       ELSE /\ pc' = "validate"
            /\ dest_addr' = Head(todo)
            /\ todo' = Tail(todo)
            /\ fetched' = FALSE
            /\ iter_calls' = <<>>
    /\ UNCHANGED <<env, zone, subdomain, svc_i, ips, dest_addrs, rtype, records,
                   rec_exists, rec_id, calls, errlog, api_failed>>

\* Lines 83-108.  ValueError is no APIError: nothing handles it.
Validate ==
    /\ pc = "validate"
    /\ LET t == CheckType(args.rec_type, dest_addr) IN
        IF t = "exit" THEN pc' = "exit" /\ UNCHANGED rtype
        ELSE IF t = "ValueError" THEN pc' = "crash" /\ UNCHANGED rtype
        ELSE pc' = "fetch" /\ rtype' = t
    /\ UNCHANGED <<env, zone, subdomain, svc_i, ips, dest_addrs, todo, dest_addr,
                   records, fetched, rec_exists, rec_id, calls, iter_calls,
                   errlog, api_failed>>

\* The handler of cloudflare.CloudFlare.APIError around modify_record.
Caught ==
    /\ pc' = "caught"
    /\ api_failed' = TRUE
    /\ errlog' = errlog \cup {"CloudFlare API responded with error"}

\* records = get_all_records(domain, email, tkn)
Fetch ==
    /\ pc = "fetch"
    /\ calls' = Append(calls, [op |-> "rec_load_all"])
    /\ \E ok \in BOOLEAN :
        IF ok
        THEN /\ records' = zone
             /\ fetched' = TRUE
             /\ pc' = "scan"
             /\ UNCHANGED <<errlog, api_failed>>
        ELSE /\ Caught
             /\ UNCHANGED <<records, fetched>>
    /\ UNCHANGED <<env, zone, subdomain, svc_i, ips, dest_addrs, todo, dest_addr,
                   rtype, rec_exists, rec_id, iter_calls>>

\* Lines 117-134 and 141: the scan, then the choice between nothing, rec_edit
\* and rec_new.  Reading rec_exists while it is unbound raises
\* UnboundLocalError, which nothing handles.
Decide ==
    /\ pc = "scan"
    /\ LET found == ScanRecords(records, subdomain, dest_addr, rtype, rec_exists) IN
        /\ rec_exists' = found.rec_exists
        /\ rec_id' = found.rec_id
        /\ pc' = IF found.rec_exists = "unbound" THEN "crash"
                 ELSE IF found.rec_exists = "True" THEN "loop"
                 ELSE IF found.rec_id # 0 THEN "edit"
                 ELSE "new"
    /\ UNCHANGED <<env, zone, subdomain, svc_i, ips, dest_addrs, todo, dest_addr,
                   rtype, records, fetched, calls, iter_calls, errlog, api_failed>>

\* The arguments of cf_api.rec_edit(domain, rtype, rec_id, rec_name,
\* dest_addr, cf_mode): rec_name is None (<<>>) throughout.
EditCall ==
    [op |-> "rec_edit", zone |-> Domain, type |-> rtype, rec_id |-> rec_id,
     name |-> <<>>, content |-> dest_addr, service_mode |-> cf_mode]

RecEdit ==
    /\ pc = "edit"
    /\ calls' = Append(calls, EditCall)
    /\ iter_calls' = Append(iter_calls, EditCall)
    /\ \E ok \in BOOLEAN :
        IF ok
        THEN /\ zone' = ProviderEdit(zone, EditCall.type, EditCall.rec_id, EditCall.name,
                                     EditCall.content, EditCall.service_mode)
             /\ pc' = "loop"
             /\ UNCHANGED <<errlog, api_failed>>
        ELSE /\ Caught
             /\ UNCHANGED zone
    /\ UNCHANGED <<env, subdomain, svc_i, ips, dest_addrs, todo, dest_addr, rtype,
                   records, fetched, rec_exists, rec_id>>

\* The arguments of cf_api.rec_new(domain, rtype, dest_addr, subdom, cf_mode).
\* rec_new given the --subdomain argument as typed, not the qualified name.
NewCallRawName ==
    [op |-> "rec_new", zone |-> Domain, type |-> rtype, rec_id |-> 0,
     name |-> args.subdomain, content |-> dest_addr, service_mode |-> cf_mode]

NewCall ==
    [op |-> "rec_new", zone |-> Domain, type |-> rtype, rec_id |-> 0,
     name |-> subdomain, content |-> dest_addr, service_mode |-> cf_mode]

RecNew ==
    /\ pc = "new"
    /\ calls' = Append(calls, NewCall)
    /\ iter_calls' = Append(iter_calls, NewCall)
    /\ \E ok \in BOOLEAN :
        IF ok
        THEN /\ zone' = ProviderNew(zone, NewCall.type, NewCall.content, NewCall.name,
                                    NewCall.service_mode)
             /\ pc' = "loop"
             /\ UNCHANGED <<errlog, api_failed>>
        ELSE /\ Caught
             /\ UNCHANGED zone
    /\ UNCHANGED <<env, subdomain, svc_i, ips, dest_addrs, todo, dest_addr, rtype,
                   records, fetched, rec_exists, rec_id>>

Mutations(cs) == SelectSeq(cs, LAMBDA c : c.op \in {"rec_new", "rec_edit"})

(***************************************************************************)
(* The crontab line: the script is invoked again with the same arguments,  *)
(* against the zone the first invocation left and the same answers of the  *)
(* IP services.                                                            *)
(***************************************************************************)
Rerun ==
    /\ run = "first"
    /\ Terminated
    /\ run' = "second"
    /\ first' = [done |-> pc = "done", dest_addrs |-> dest_addrs,
                 mutations |-> Len(Mutations(calls))]
    /\ pc' = "parse"
    /\ subdomain' = <<>>
    /\ svc_i' = 0
    /\ ips' = {}
    /\ dest_addrs' = <<>>
    /\ todo' = <<>>
    /\ dest_addr' = <<>>
    /\ rtype' = ""
    /\ records' = <<>>
    /\ fetched' = FALSE
    /\ rec_exists' = "unbound"
    /\ rec_id' = 0
    /\ calls' = <<>>
    /\ iter_calls' = <<>>
    /\ errlog' = {}
    /\ api_failed' = FALSE
    /\ UNCHANGED <<args, zone, service_reply>>

Next ==
    \/ ParseArgs
    \/ ListRecords
    \/ UseContent
    \/ QueryService
    \/ Discovered
    \/ NextAddr
    \/ Validate
    \/ Fetch
    \/ Decide
    \/ RecEdit
    \/ RecNew

Spec == Init /\ [][Next]_vars

NextTwice == Next \/ Rerun

SpecTwice == Init /\ [][NextTwice]_vars

(***************************************************************************)
(* Properties.                                                             *)
(***************************************************************************)
\* The records fetched for dest_addr are in records and the scan is over.
Decided == fetched /\ dest_addr # <<>> /\ pc # "scan"

\* The iteration for dest_addr is over, with or without a failed call.
IterationOver == Decided /\ pc \in {"loop", "done", "caught"}

NameMatches == {i \in 1..Len(records) : records[i].name = subdomain}

\* A 2xx answer of an IP service.
IsOk(r) == r.kind = "http" /\ r.status \in 200..299

\* The address does not belong to the family the record type asks for.
Mismatch(t, a) ==
    \/ t = "A" /\ (is_ipv6(a) \/ ~is_ipv4(a))
    \/ t = "AAAA" /\ (is_ipv4(a) \/ ~is_ipv6(a))

\* C1: when the fetched records hold records named as the target, all with a
\* content other than the desired one (and, to take the claim at its most
\* favourable, one of them of the record type in use), the iteration issues
\* exactly one call, a rec_edit carrying the identifier of such a record,
\* the record type, the fully-qualified target name, the desired content and
\* the mode.
C1_EditCarriesRecord ==
    (/\ IterationOver
     /\ \E i \in NameMatches : records[i].type = rtype
     /\ \A i \in NameMatches : records[i].content # dest_addr)
    => /\ Len(iter_calls) = 1
       /\ iter_calls[1].op = "rec_edit"
       /\ \E i \in NameMatches : iter_calls[1].rec_id = records[i].rec_id
       /\ iter_calls[1].type = rtype
       /\ iter_calls[1].name = subdomain
       /\ iter_calls[1].content = dest_addr
       /\ iter_calls[1].service_mode = cf_mode

\* C2: when the fetched records (none included) hold no record named as the
\* target and the address is a valid IP address, the iteration goes on to
\* exactly one rec_new with the zone, the record type, the desired content,
\* the target name and the mode, and to no rec_edit.
C2_CreateWhenNoMatch ==
    (/\ Decided
     /\ NameMatches = {}
     /\ is_ipv4(dest_addr) \/ is_ipv6(dest_addr))
    => \/ pc = "new" /\ iter_calls = <<>>
       \/ /\ pc \in {"loop", "done", "caught"}
          /\ iter_calls = << [op |-> "rec_new", zone |-> Domain, type |-> rtype,
                              rec_id |-> 0, name |-> subdomain,
                              content |-> dest_addr, service_mode |-> cf_mode] >>

OnlyMatchIdentical ==
    /\ Cardinality(NameMatches) = 1
    /\ \A i \in NameMatches : records[i].content = dest_addr

\* C4: when the only fetched record named as the target holds the desired
\* content, the iteration calls neither rec_new nor rec_edit.
C4_IdenticalIsNoOp ==
    (Decided /\ OnlyMatchIdentical) => (pc \in {"loop", "done"} /\ iter_calls = <<>>)

\* C4 witness: an iteration that ended over such records.
C4_Witness ==
    /\ Decided
    /\ OnlyMatchIdentical
    /\ pc = "loop"
    /\ Len(records) > 1

\* C5: an --update without --content in which no IP service gave a body
\* ends with an error logged and a non-zero exit.
C5_NoAddressIsFatal ==
    (/\ args.action = "update"
     /\ args.dest_addr = <<>>
     /\ svc_i = NumServices
     /\ ips = {}
     /\ Terminated)
    => (errlog # {} /\ ExitCode # 0)

\* C6: with --content the addresses modify_record visits are the value
\* given, and no IP service is asked.
C6_ContentUsedAsIs ==
    (args.action = "update" /\ args.dest_addr # <<>>)
    => /\ svc_i = 0
       /\ dest_addr # <<>> => dest_addr = args.dest_addr

\* C7: every candidate address is the stripped body of a 2xx answer; and
\* when the first service failed (no answer, or a non-2xx one) and the
\* second gave an address in a 2xx answer, that address is the only one
\* modify_record visits, and the run ends normally unless the provider,
\* the type check or the record scan ends it.
C7_FailedServiceContributesNothing ==
    /\ \A ip \in ips :
        \E i \in 1..svc_i : IsOk(service_reply[i]) /\ Strip(service_reply[i].text) = ip
    /\ (/\ pc \notin {"parse", "resolve"}
        /\ args.action = "update"
        /\ args.dest_addr = <<>>
        /\ ~IsOk(service_reply[1])
        /\ IsOk(service_reply[2])
        /\ Strip(service_reply[2].text) # <<>>)
       => dest_addrs = << Strip(service_reply[2].text) >>

\* C8: a provider call that raised APIError was caught by the handler and
\* logged.
C8_ProviderFailureCaught ==
    api_failed => (pc = "caught" /\ errlog # {})

\* C9: with --type A or AAAA, an address of the other family (or of none)
\* gets no further than the type check: no provider call is made for it and
\* the run ends in exit(1); and a run given such an address by --content
\* ends in an error with no provider call made and no IP service asked.
C9_MismatchIsFatalBeforeCalls ==
    /\ (dest_addr # <<>> /\ Mismatch(args.rec_type, dest_addr))
       => /\ pc \in {"validate", "exit"}
          /\ ~fetched
          /\ iter_calls = <<>>
    /\ (/\ args.action = "update"
        /\ args.dest_addr # <<>>
        /\ Mismatch(args.rec_type, args.dest_addr))
       => /\ calls = <<>>
          /\ svc_i = 0
          /\ Terminated => pc \in {"exit", "usage"}

\* C9 witness: a run over discovered addresses ended in exit(1) at an IPv6
\* address under --type A, after the IPv4 address before it was reconciled.
C9_Witness ==
    /\ pc = "exit"
    /\ args.rec_type = "A"
    /\ dest_addr = IP6a
    /\ Len(dest_addrs) = 2
    /\ calls # <<>>

\* The first invocation visited one address, a valid IP address, made a
\* rec_new or rec_edit call and ran to its end; the second invocation is
\* visiting the same address.
SecondRunOfSame ==
    /\ run = "second"
    /\ first.done
    /\ first.mutations >= 1
    /\ Len(first.dest_addrs) = 1
    /\ is_ipv4(first.dest_addrs[1]) \/ is_ipv6(first.dest_addrs[1])
    /\ dest_addrs = first.dest_addrs

=============================================================================
